---- MODULE Spec2Model ----
(***************************************************************************)
(* T-shirt cannon simulator (src/app.py): muzzle velocity, forward-Euler   *)
(* trajectory integrator, bisection calibration of the friction factor,    *)
(* and the Streamlit script that evaluates a scenario per slider setting.  *)
(*                                                                         *)
(* Python floats are modelled in fixed point.  Velocities are integers in  *)
(* units of 1/VelScale m/s, positions in units of 1/(VelScale*DtDen) m, so *)
(* that "x += vx * dt" is the exact integer update x' = x + vx.  Friction  *)
(* multipliers are integers in units of 1/FactorScale.  Every product is   *)
(* formed exactly (MulDiv) and rounded once, where a float would round.    *)
(* Masses are in grams, diameters in millimetres, pressures in psi.        *)
(***************************************************************************)
EXTENDS Integers, Sequences, FiniteSets, TLC

\* ------------------------------------------------------------ arithmetic

\* velocity units per m/s: squares of speeds up to the ideal muzzle velocity
\* (137.65 m/s) fit the integer width, and g*dt is 30.9996 units
VelScale == 316
\* dt = 1/DtDen seconds
DtDen == 100
\* position units per metre
PosScale == VelScale * DtDen
\* units of a friction multiplier: low = 0.01 is FactorScale \div 100
FactorScale == 1000000

Abs(n) == IF n < 0 THEN -n ELSE n
Sgn(n) == IF n < 0 THEN -1 ELSE IF n > 0 THEN 1 ELSE 0

\* <<q, r>> with a*b = q*d + r and 0 <= r < d, for 0 <= a < d, b >= 0,
\* without forming a*b (binary long multiplication)
RECURSIVE MulDivQR(_, _, _)
MulDivQR(a, b, d) ==
  IF b = 0 THEN <<0, 0>>
  ELSE CHOOSE qr \in
         {<<2 * h[1] + ((2 * h[2] + (b % 2) * a) \div d),
            (2 * h[2] + (b % 2) * a) % d>> :
            h \in {MulDivQR(a, b \div 2, d)}} : TRUE

\* floor(a*b/d) for a, b >= 0 and d > 0
MulDiv(a, b, d) ==
  CHOOSE p \in {(m \div d) * n + MulDivQR(m % d, n, d)[1] :
                  m \in {a}, n \in {b}} : TRUE

\* n/d rounded to the nearest integer, half away from zero; d # 0
RoundDiv(n, d) ==
  CHOOSE p \in
    {Sgn(m) * Sgn(e) *
       (IF (Abs(m) % Abs(e)) >= Abs(e) - (Abs(m) % Abs(e))
        THEN (Abs(m) \div Abs(e)) + 1 ELSE Abs(m) \div Abs(e)) :
       m \in {n}, e \in {d}} : TRUE

\* floor(sqrt(n)) by Newton's iteration from a guess x >= floor(sqrt(n)),
\* x > 0
RECURSIVE Newton(_, _)
Newton(n, x) ==
  CHOOSE r \in {IF y >= x THEN x ELSE Newton(n, y) :
                  y \in {(x + n \div x) \div 2}} : TRUE

\* the integer nearest to sqrt(n), for n >= 0 and guess >= floor(sqrt(n))
ISqrt(n, guess) ==
  CHOOSE r \in
    {IF m = 0 THEN 0
     ELSE CHOOSE t \in {IF m - s * s > s THEN s + 1 ELSE s :
                          s \in {Newton(m, x)}} : TRUE :
       m \in {n}, x \in {guess}} : TRUE

\* -------------------------------------------------------------- constants

\* air_density = 1.225 kg/m^3, in 1/1000
air_density == 1225
\* Cd = 0.5, in 1/10
Cd == 5
\* g = 9.81 m/s^2, in 1/100
g == 981
\* barrel_diameter_in = 2.75, in 1/100 inch
barrel_diameter_in == 275
\* barrel_length_in = 24 inches
barrel_length_in == 24
\* pi, in 1/100000
Pi == 314159
\* 0.0254 m per inch, in 1/10000
InchE4 == 254
\* 6894.76 Pa per psi, in 1/100
PsiPaE2 == 689476
\* TARGET_RANGE_FT = 200
TARGET_RANGE_FT == 200
\* 0.3048 m per foot, in 1/10000
FootE4 == 3048

\* barrel_diameter_m, in 1/1000000 m
barrel_diameter_m == barrel_diameter_in * InchE4
\* barrel_length_m, in 1/10000 m
barrel_length_m == barrel_length_in * InchE4
\* barrel_area = pi * (d/2)^2, in mm^2/100
barrel_area ==
  MulDiv((barrel_diameter_m \div 10) * (barrel_diameter_m \div 10), Pi, 400000 * 100)
\* barrel_area * barrel_length_m, in mm^3
BarrelVolume == MulDiv(barrel_area, barrel_length_m, 1000)
\* TARGET_RANGE_M, in position units
TARGET_RANGE_M == MulDiv(TARGET_RANGE_FT * FootE4, PosScale, 10000)

\* math.cos / math.sin of math.radians(angle_deg), in 1/10000, for the
\* launch angles the model draws
CosE4(angle_deg) ==
  CASE angle_deg = 0 -> 10000 [] angle_deg = 30 -> 8660 [] angle_deg = 45 -> 7071
    [] angle_deg = 60 -> 5000 [] angle_deg = 85 -> 872
SinE4(angle_deg) ==
  CASE angle_deg = 0 -> 0 [] angle_deg = 30 -> 5000 [] angle_deg = 45 -> 7071
    [] angle_deg = 60 -> 8660 [] angle_deg = 85 -> 9962

\* ------------------------------------------------- muzzle_velocity_ideal

\* work = pressure_pa * barrel_area * barrel_length_m, in mJ (sign kept)
Work(pressure_psi) ==
  Sgn(pressure_psi) * MulDiv(Abs(pressure_psi) * PsiPaE2, BarrelVolume, 100000000)

\* muzzle_velocity_ideal(mass, pressure_psi): [err, val] with val in velocity
\* units.  (2 * work) / mass raises ZeroDivisionError for mass = 0;
\* math.sqrt raises ValueError for a negative argument (sqrt(-0.0) is -0.0).
muzzle_velocity_ideal(mass, pressure_psi) ==
  IF mass = 0 THEN [err |-> "ZeroDivisionError", val |-> 0]
  ELSE LET work == Work(pressure_psi)
       IN IF work # 0 /\ Sgn(work) # Sgn(mass)
          THEN [err |-> "ValueError", val |-> 0]
          ELSE LET cm == ISqrt(MulDiv(2 * Abs(work), 10000, Abs(mass)), 46340)
               IN [err |-> "none", val |-> RoundDiv(cm * VelScale, 100)]

\* ---------------------------------------------------- trajectory stepping

\* A = math.pi * (diameter / 2) ** 2, in mm^2/100
Area(diameter) == MulDiv(diameter * diameter, Pi, 4000)
\* k = 0.5 * air_density * Cd * A, in 1/10^9 kg/m
DragK(diameter) == MulDiv(air_density * Cd, Area(diameter), 2000)

\* vx, vy = v0 * math.cos(angle), v0 * math.sin(angle); x, y = 0, 0
Launch(v0, angle_deg) ==
  [x |-> 0, y |-> 0,
   vx |-> RoundDiv(v0 * CosE4(angle_deg), 10000),
   vy |-> RoundDiv(v0 * SinE4(angle_deg), 10000)]

\* speed = math.sqrt(vx**2 + vy**2)
Speed(s) == ISqrt(s.vx * s.vx + s.vy * s.vy, Abs(s.vx) + Abs(s.vy))

\* The loop-invariant part of (drag / mass) * (v / speed) * dt, with
\* drag = k * speed**2: in velocity units that product is
\* speed * v * k / (mass * VelScale * 10^8), i.e. speed * v / DragDiv.
\* DragDiv is 0 when there is no drag (k = 0) or no quotient (mass = 0).
DragDiv(k, mass) ==
  IF k = 0 \/ mass = 0 THEN 0
  ELSE Sgn(mass) * MulDiv(Abs(mass) * VelScale, 100000000, k)

\* the locals a call keeps through its loop: mass, k and the drag divisor
Locals(mass, diameter) ==
  LET k == DragK(diameter)
  IN [mass |-> mass, k |-> k, div |-> DragDiv(k, mass)]

\* (drag / mass) * (v / speed) * dt, in velocity units, rounded to nearest
DragDv(c, speed, v) == IF c.div = 0 THEN 0 ELSE RoundDiv(speed * v, c.div)

\* g * dt, in velocity units
GravDv == RoundDiv(g * VelScale, 100 * DtDen)

\* the stepping code raises ZeroDivisionError at drag / mass (mass = 0) or
\* at vx / speed (speed = 0)
DivisionByZero(c, s) == c.mass = 0 \/ Speed(s) = 0

\* the frame of a call: the locals x, y, vx, vy (and xs, ys), and what the
\* call has raised or returned
Frame(v0, angle_deg) ==
  Launch(v0, angle_deg) @@
  [xs |-> <<>>, ys |-> <<>>, err |-> "none", done |-> FALSE, ret |-> 0]

Ended(f) == f.done \/ f.err # "none"

\* the locals after the four updates of a loop body
Updated(f, s) == [f EXCEPT !.x = s.x, !.y = s.y, !.vx = s.vx, !.vy = s.vy]

\* ---- simulate_range

\* variant: the loop goes on until the projectile is a metre below ground
RangeCondLate(s) == s.y >= -PosScale

\* while y >= 0
RangeCond(s) == s.y >= 0

\* one pass of the loop body of simulate_range
RangeBody(c, s) ==
  LET ax_dt(speed) == -DragDv(c, speed, s.vx)
      ay_dt(speed) == -DragDv(c, speed, s.vy) - GravDv
      moved(vx2, vy2) ==
        [x |-> s.x + vx2, y |-> s.y + vy2, vx |-> vx2, vy |-> vy2]
  IN CHOOSE r \in
       UNION {{moved(vx2, vy2) : vx2 \in {s.vx + ax_dt(speed)},
                                 vy2 \in {s.vy + ay_dt(speed)}} :
                speed \in {Speed(s)}} : TRUE

\* one evaluation of the loop condition and what follows it
RangePass(c, f) ==
  IF Ended(f) THEN f
  ELSE IF ~RangeCond(f) THEN [f EXCEPT !.done = TRUE, !.ret = f.x]
  ELSE IF DivisionByZero(c, f) THEN [f EXCEPT !.err = "ZeroDivisionError"]
  ELSE Updated(f, RangeBody(c, f))

\* ---- simulate_trajectory

\* variant: while y > 0
TrajCondStrict(s) == s.y > 0

\* while y >= 0
TrajCond(s) == s.y >= 0

\* variant: the position is advanced with the velocity before its update
TrajBodyOldVelocity(c, s) ==
  [RangeBody(c, s) EXCEPT !.x = s.x + s.vx, !.y = s.y + s.vy]

\* one pass of the loop body of simulate_trajectory, after the two appends
TrajBody(c, s) ==
  LET ax_dt(speed) == -DragDv(c, speed, s.vx)
      ay_dt(speed) == -DragDv(c, speed, s.vy) - GravDv
      moved(vx2, vy2) ==
        [x |-> s.x + vx2, y |-> s.y + vy2, vx |-> vx2, vy |-> vy2]
  IN CHOOSE r \in
       UNION {{moved(vx2, vy2) : vx2 \in {s.vx + ax_dt(speed)},
                                 vy2 \in {s.vy + ay_dt(speed)}} :
                speed \in {Speed(s)}} : TRUE

\* xs.append(x); ys.append(y)
Sampled(f) == [f EXCEPT !.xs = Append(f.xs, f.x), !.ys = Append(f.ys, f.y)]

TrajPass(c, f) ==
  IF Ended(f) THEN f
  ELSE IF ~TrajCond(f) THEN [f EXCEPT !.done = TRUE]
  ELSE IF DivisionByZero(c, f)
       THEN [Sampled(f) EXCEPT !.err = "ZeroDivisionError"]
  ELSE Updated(Sampled(f), TrajBody(c, f))

\* ---- speed_at_distance

\* while y >= 0
SpeedCond(s) == s.y >= 0

\* variant: if x > target_dist
ReachedStrictly(s, target_dist) == s.x > target_dist

\* if x >= target_dist: return speed
Reached(s, target_dist) == s.x >= target_dist

\* one pass of the loop body of speed_at_distance, after the target test
SpeedBody(c, s) ==
  LET ax_dt(speed) == -DragDv(c, speed, s.vx)
      ay_dt(speed) == -DragDv(c, speed, s.vy) - GravDv
      moved(vx2, vy2) ==
        [x |-> s.x + vx2, y |-> s.y + vy2, vx |-> vx2, vy |-> vy2]
  IN CHOOSE r \in
       UNION {{moved(vx2, vy2) : vx2 \in {s.vx + ax_dt(speed)},
                                 vy2 \in {s.vy + ay_dt(speed)}} :
                speed \in {Speed(s)}} : TRUE

SpeedPass(c, f, target_dist) ==
  IF Ended(f) THEN f
  ELSE IF ~SpeedCond(f) THEN [f EXCEPT !.done = TRUE, !.ret = 0]
  ELSE IF Reached(f, target_dist) THEN [f EXCEPT !.done = TRUE, !.ret = Speed(f)]
  ELSE IF DivisionByZero(c, f) THEN [f EXCEPT !.err = "ZeroDivisionError"]
  ELSE Updated(f, SpeedBody(c, f))


\* ---- the three entry points as operators

\* one evaluation of the loop condition of function fn and what follows it
Pass(fn, c, target_dist, f) ==
  CASE fn = "simulate_range" -> RangePass(c, f)
    [] fn = "simulate_trajectory" -> TrajPass(c, f)
    [] fn = "speed_at_distance" -> SpeedPass(c, f, target_dist)

\* 2^d passes (a pass after the loop has ended changes nothing).  Each
\* intermediate frame is bound as a value (h) before it is passed on, so
\* that the depth of evaluation stays logarithmic in the number of passes.
RECURSIVE Repeat(_, _, _, _, _)
Repeat(fn, c, target_dist, f, d) ==
  IF d = 0 THEN Pass(fn, c, target_dist, f)
  ELSE CHOOSE r \in {Repeat(fn, c, target_dist, h, d - 1) :
                       h \in {Repeat(fn, c, target_dist, f, d - 1)}} : TRUE

\* passes per round of RunLoop: 2^ChunkLog
ChunkLog == 6

\* the whole loop: passes until the call has returned or raised
RECURSIVE RunLoop(_, _, _, _)
RunLoop(fn, c, target_dist, f) ==
  IF Ended(f) THEN f
  ELSE CHOOSE r \in {RunLoop(fn, c, target_dist, h) :
                       h \in {Repeat(fn, c, target_dist, f, ChunkLog)}} : TRUE

\* a call of fn: A, k, angle, vx, vy, x, y are set, then the loop runs
Call(fn, mass, diameter, v0, angle_deg, target_dist) ==
  CHOOSE r \in {RunLoop(fn, c, target_dist, f) :
                  c \in {Locals(mass, diameter)}, f \in {Frame(v0, angle_deg)}} : TRUE

\* simulate_range(mass, diameter, v0, angle_deg): the final frame; ret is
\* the returned x, in position units
simulate_range(mass, diameter, v0, angle_deg) ==
  Call("simulate_range", mass, diameter, v0, angle_deg, 0)

\* simulate_trajectory(mass, diameter, v0, angle_deg): the final frame; the
\* returned arrays are xs and ys
simulate_trajectory(mass, diameter, v0, angle_deg) ==
  Call("simulate_trajectory", mass, diameter, v0, angle_deg, 0)

\* speed_at_distance(mass, diameter, v0, angle_deg, target_dist): the final
\* frame; ret is the returned speed, in velocity units
speed_at_distance(mass, diameter, v0, angle_deg, target_dist) ==
  Call("speed_at_distance", mass, diameter, v0, angle_deg, target_dist)

\* ------------------------------------------------- calibration and script

\* objects["T-shirt"]: 170 g, 70 mm
TshirtMass == 170
TshirtDiam == 70
\* objects["Stress Ball"]: 40 g, 70 mm
StressMass == 40
StressDiam == 70
\* muzzle_velocity_ideal(objects["T-shirt"]["mass"], 100)
CalPressure == 100
\* simulate_range(..., ideal_v_tshirt * mid, 45)
CalAngle == 45
\* for _ in range(100)
NumIter == 100
\* st.slider defaults
PsiDefault == 100
AngleDefault == 45
\* speed_at_distance(..., 50 * 0.3048)
ImpactFt == 50

\* low, high = 0.01, 1.0
LowInit == FactorScale \div 100
HighInit == FactorScale

\* (low + high) / 2: the sum is exact, the quotient is rounded to the nearest
\* representable value, ties to even, as a float is
Mid(lo, hi) ==
  LET sum == lo + hi
      h == sum \div 2
  IN IF sum % 2 = 0 \/ h % 2 = 0 THEN h ELSE h + 1

\* velocity * factor, rounded to the nearest velocity unit
Scaled(v, factor) == (MulDiv(2 * v, factor, FactorScale) + 1) \div 2

\* variant: the comparison of line 95 turned round
ExceedsFlipped(r, t) == r < t

\* variant: the branches of lines 96 and 98 exchanged
ExceedsNot(r, t) == ~(r > t)

\* the test of line 95: simulate_range(...) > TARGET_RANGE_M
Exceeds(r, t) == r > t

\* variant: the loop stops one iteration short
LoopDoneEarly(n) == n >= NumIter - 1

\* the loop of line 93 has run all its iterations
LoopDone(n) == n = NumIter

\* feet to position units
FtToPos(ft) == MulDiv(ft * FootE4, PosScale, 10000)

\* round(x * 3.281, 1), in 1/10 ft, for x in position units
FeetTenths(x) == (MulDiv(x, 2 * 3281, 100 * PosScale) + 1) \div 2

\* ------------------------------------------------------------------ state

VARIABLES
  pc,                      \* position of the script (module level of app.py)
  target,                  \* TARGET_RANGE_M, in position units
  widget,                  \* the slider values Streamlit holds for the session
  interactions,            \* slider changes made so far
  ideal_v_tshirt, low, high, it,
  friction_factor_tshirt, friction_factor_stress,
  psi, angle,
  scen,                    \* v_tshirt, x_tshirt, y_tshirt, v_stress, x_stress, y_stress
  stats,                   \* range_tshirt_ft, range_stress_ft, impact_speed_tshirt
  loopRuns, lowMoves, highMoves,   \* history: runs of the calibration loop,
                                   \* assignments to low / to high in this run
  hpc,                     \* position of a caller of the entry points
  args,                    \* the arguments it passes
  call,                    \* the running call: fn, its locals, target_dist
  frame,                   \* x, y, vx, vy, xs, ys of the running call
  visited,                 \* history: the states in which the loop body was entered
  res                      \* what each finished call returned or raised

progVars ==
  <<pc, target, widget, interactions, ideal_v_tshirt, low, high, it,
    friction_factor_tshirt, friction_factor_stress, psi, angle, scen, stats,
    loopRuns, lowMoves, highMoves>>
callVars == <<hpc, args, call, frame, visited, res>>
vars == <<progVars, callVars>>

\* slider changes a behaviour of the model makes
MaxInteractions == 2

\* values the sliders are moved to (psi: 40..120 step 5, angle: 0..85)
PsiChoices == {40, 100, 120}
AngleChoices == {0, 45, 85}

NoScen ==
  [v_tshirt |-> 0, x_tshirt |-> <<>>, y_tshirt |-> <<>>,
   v_stress |-> 0, x_stress |-> <<>>, y_stress |-> <<>>]
NoStats == [range_tshirt_ft |-> 0, range_stress_ft |-> 0, impact_speed_tshirt |-> 0]

\* no call is running
NoCall == [fn |-> "none", c |-> Locals(0, 0), target_dist |-> 0]
NoArgs ==
  [mass |-> 0, diameter |-> 0, v0 |-> 0, angle_deg |-> 0, target_dist |-> 0,
   pressure_psi |-> 0]
Pending == [frame |-> Frame(0, 0), visited |-> <<>>]
NoRes ==
  [muzzle |-> [err |-> "none", val |-> 0],
   range |-> Pending, traj |-> Pending, speed |-> Pending]

\* a fresh run of the script: no global is bound yet
FreshGlobals ==
  /\ ideal_v_tshirt = 0 /\ low = 0 /\ high = 0 /\ it = 0
  /\ friction_factor_tshirt = 0 /\ friction_factor_stress = 0
  /\ psi = 0 /\ angle = 0 /\ scen = NoScen /\ stats = NoStats

CallIdle ==
  /\ hpc = "off" /\ args = NoArgs /\ call = NoCall /\ frame = Frame(0, 0)
  /\ visited = <<>> /\ res = NoRes

\* the process starts: Streamlit runs the script with the sliders' defaults
Init ==
  /\ pc = "calibrate"
  /\ target = TARGET_RANGE_M
  /\ widget = [psi |-> PsiDefault, angle |-> AngleDefault]
  /\ interactions = 0
  /\ FreshGlobals
  /\ loopRuns = 0 /\ lowMoves = 0 /\ highMoves = 0
  /\ CallIdle

\* ----------------------------------------------------- the script's steps

\* lines 91-92
CalStart ==
  /\ pc = "calibrate"
  /\ LET m == muzzle_velocity_ideal(TshirtMass, CalPressure)
     IN IF m.err # "none"
        THEN /\ pc' = "raised"
             /\ UNCHANGED <<ideal_v_tshirt, low, high, it, loopRuns>>
        ELSE /\ pc' = "loop"
             /\ ideal_v_tshirt' = m.val
             /\ low' = LowInit
             /\ high' = HighInit
             /\ it' = 0
             /\ loopRuns' = loopRuns + 1
  /\ lowMoves' = 0 /\ highMoves' = 0
  /\ UNCHANGED <<target, widget, interactions, friction_factor_tshirt,
                 friction_factor_stress, psi, angle, scen, stats, callVars>>

\* lines 93-98: one iteration of the calibration loop
CalIter ==
  /\ pc = "loop"
  /\ ~LoopDone(it)
  /\ \E mid \in {Mid(low, high)} :
     \E r \in {simulate_range(TshirtMass, TshirtDiam,
                              Scaled(ideal_v_tshirt, mid), CalAngle)} :
        IF r.err # "none"
        THEN /\ pc' = "raised"
             /\ UNCHANGED <<low, high, it, lowMoves, highMoves>>
        ELSE /\ pc' = "loop"
             /\ it' = it + 1
             /\ IF Exceeds(r.ret, target)
                THEN /\ high' = mid
                     /\ highMoves' = highMoves + 1
                     /\ UNCHANGED <<low, lowMoves>>
                ELSE /\ low' = mid
                     /\ lowMoves' = lowMoves + 1
                     /\ UNCHANGED <<high, highMoves>>
  /\ UNCHANGED <<target, widget, interactions, ideal_v_tshirt,
                 friction_factor_tshirt, friction_factor_stress, psi, angle,
                 scen, stats, loopRuns, callVars>>

\* lines 99-102
CalFinish ==
  /\ pc = "loop"
  /\ LoopDone(it)
  /\ friction_factor_tshirt' = Mid(low, high)
  /\ friction_factor_stress' = Mid(low, high) \div 2
  /\ pc' = "sliders"
  /\ UNCHANGED <<target, widget, interactions, ideal_v_tshirt, low, high, it,
                 psi, angle, scen, stats, loopRuns, lowMoves, highMoves,
                 callVars>>

\* lines 105-107: each st.slider returns the value the session holds
Sliders ==
  /\ pc = "sliders"
  /\ psi' = widget.psi
  /\ angle' = widget.angle
  /\ pc' = "tshirt"
  /\ UNCHANGED <<target, widget, interactions, ideal_v_tshirt, low, high, it,
                 friction_factor_tshirt, friction_factor_stress, scen, stats,
                 loopRuns, lowMoves, highMoves, callVars>>

\* lines 112-114
Tshirt ==
  /\ pc = "tshirt"
  /\ \E m \in {muzzle_velocity_ideal(TshirtMass, psi)} :
     \E v \in {Scaled(m.val, friction_factor_tshirt)} :
     \E t \in {simulate_trajectory(TshirtMass, TshirtDiam, v, angle)} :
        IF m.err # "none" \/ t.err # "none"
        THEN pc' = "raised" /\ UNCHANGED scen
        ELSE /\ pc' = "stress"
             /\ scen' = [scen EXCEPT !.v_tshirt = v, !.x_tshirt = t.xs,
                                     !.y_tshirt = t.ys]
  /\ UNCHANGED <<target, widget, interactions, ideal_v_tshirt, low, high, it,
                 friction_factor_tshirt, friction_factor_stress, psi, angle,
                 stats, loopRuns, lowMoves, highMoves, callVars>>

\* lines 117-119
Stress ==
  /\ pc = "stress"
  /\ \E m \in {muzzle_velocity_ideal(StressMass, psi)} :
     \E v \in {Scaled(m.val, friction_factor_stress)} :
     \E t \in {simulate_trajectory(StressMass, StressDiam, v, angle)} :
        IF m.err # "none" \/ t.err # "none"
        THEN pc' = "raised" /\ UNCHANGED scen
        ELSE /\ pc' = "stats"
             /\ scen' = [scen EXCEPT !.v_stress = v, !.x_stress = t.xs,
                                     !.y_stress = t.ys]
  /\ UNCHANGED <<target, widget, interactions, ideal_v_tshirt, low, high, it,
                 friction_factor_tshirt, friction_factor_stress, psi, angle,
                 stats, loopRuns, lowMoves, highMoves, callVars>>

\* lines 133-145: x[-1] raises IndexError on an empty array
Stats ==
  /\ pc = "stats"
  /\ \E sp \in {speed_at_distance(TshirtMass, TshirtDiam, scen.v_tshirt,
                                  angle, FtToPos(ImpactFt))} :
        IF scen.x_tshirt = <<>> \/ scen.x_stress = <<>> \/ sp.err # "none"
        THEN pc' = "raised" /\ UNCHANGED stats
        ELSE /\ pc' = "end"
             /\ stats' =
                  [range_tshirt_ft |->
                     FeetTenths(scen.x_tshirt[Len(scen.x_tshirt)]),
                   range_stress_ft |->
                     FeetTenths(scen.x_stress[Len(scen.x_stress)]),
                   impact_speed_tshirt |-> sp.ret]
  /\ UNCHANGED <<target, widget, interactions, ideal_v_tshirt, low, high, it,
                 friction_factor_tshirt, friction_factor_stress, psi, angle,
                 scen, loopRuns, lowMoves, highMoves, callVars>>

\* The user moves a slider (lines 106-107).  Streamlit then runs the whole
\* script again, top to bottom, in a fresh namespace; only the widget values
\* are kept.  Nothing in app.py caches the calibration.
Rerun ==
  /\ pc = "end"
  /\ interactions < MaxInteractions
  /\ \E p \in PsiChoices, a \in AngleChoices :
       /\ [psi |-> p, angle |-> a] # widget
       /\ widget' = [psi |-> p, angle |-> a]
  /\ interactions' = interactions + 1
  /\ pc' = "calibrate"
  /\ ideal_v_tshirt' = 0 /\ low' = 0 /\ high' = 0 /\ it' = 0
  /\ friction_factor_tshirt' = 0 /\ friction_factor_stress' = 0
  /\ psi' = 0 /\ angle' = 0 /\ scen' = NoScen /\ stats' = NoStats
  /\ UNCHANGED <<target, loopRuns, lowMoves, highMoves, callVars>>

Next ==
  \/ CalStart \/ CalIter \/ CalFinish
  \/ Sliders \/ Tshirt \/ Stress \/ Stats
  \/ Rerun

Spec == Init /\ [][Next]_vars

\* ------------------------------------- the calibration for a given target

\* targets the calibration is run for: multiples of TargetStep, and the
\* program's own TARGET_RANGE_M
MaxTarget == 2
TargetStep == 4 * TARGET_RANGE_M
CalTargets == {j * TargetStep : j \in 0..MaxTarget} \cup {TARGET_RANGE_M}

InitCal ==
  /\ pc = "calibrate"
  /\ target \in CalTargets
  /\ widget = [psi |-> PsiDefault, angle |-> AngleDefault]
  /\ interactions = 0
  /\ FreshGlobals
  /\ loopRuns = 0 /\ lowMoves = 0 /\ highMoves = 0
  /\ CallIdle

NextCal == CalStart \/ CalIter \/ CalFinish

SpecCal == InitCal /\ [][NextCal]_vars

\* ------------------------- the three entry points, one loop pass per step

\* launch speeds the entry points are called with: multiples of V0Step
MaxV0 == 3
V0Step == 5 * VelScale
Masses == {TshirtMass, StressMass}
Angles == {0, 45, 85}
Distances == {0, FtToPos(ImpactFt) \div 3, FtToPos(ImpactFt)}

\* arguments inside the documented domain, v0 > 0
ValidArgs ==
  [mass : Masses, diameter : {TshirtDiam}, v0 : {i * V0Step : i \in 1..MaxV0},
   angle_deg : Angles, target_dist : Distances, pressure_psi : {CalPressure}]
\* launch speed 0
ZeroSpeedArgs ==
  [mass : {TshirtMass}, diameter : {TshirtDiam}, v0 : {0}, angle_deg : {0, 45},
   target_dist : {0, FtToPos(ImpactFt)}, pressure_psi : {0}]
\* arguments outside the domain: mass <= 0, diameter <= 0, pressure < 0
InvalidArgs ==
  [mass : {0, -TshirtMass}, diameter : {TshirtDiam}, v0 : {2 * V0Step},
   angle_deg : {45}, target_dist : {FtToPos(ImpactFt)},
   pressure_psi : {0, CalPressure}]
  \cup
  [mass : {TshirtMass}, diameter : {0, -TshirtDiam}, v0 : {2 * V0Step},
   angle_deg : {45}, target_dist : {FtToPos(ImpactFt)}, pressure_psi : {-5}]

InitSim ==
  /\ pc = "off"
  /\ target = TARGET_RANGE_M
  /\ widget = [psi |-> PsiDefault, angle |-> AngleDefault]
  /\ interactions = 0
  /\ FreshGlobals
  /\ loopRuns = 0 /\ lowMoves = 0 /\ highMoves = 0
  /\ hpc = "muzzle"
  /\ args \in ValidArgs \cup ZeroSpeedArgs \cup InvalidArgs
  /\ call = NoCall /\ frame = Frame(0, 0) /\ visited = <<>> /\ res = NoRes

\* the caller evaluates muzzle_velocity_ideal(mass, pressure_psi)
CallMuzzle ==
  /\ hpc = "muzzle"
  /\ res' = [res EXCEPT !.muzzle = muzzle_velocity_ideal(args.mass, args.pressure_psi)]
  /\ hpc' = "range"
  /\ UNCHANGED <<progVars, args, call, frame, visited>>

\* entry of a call: A, k, angle, vx, vy, x, y, dt (and xs, ys) are set
Enter(fn) ==
  /\ call' = [fn |-> fn, c |-> Locals(args.mass, args.diameter),
              target_dist |-> args.target_dist]
  /\ frame' = Frame(args.v0, args.angle_deg)
  /\ visited' = <<>>
  /\ hpc' = "running"
  /\ UNCHANGED <<progVars, args, res>>

CallRange == hpc = "range" /\ Enter("simulate_range")
CallTraj == hpc = "traj" /\ Enter("simulate_trajectory")
CallSpeed == hpc = "speed" /\ Enter("speed_at_distance")

\* the locals at the top of a pass
Here == [x |-> frame.x, y |-> frame.y, vx |-> frame.vx, vy |-> frame.vy]

\* one pass of the running call's loop: the condition, and the body or the
\* return
Step(fn, entersBody) ==
  /\ hpc = "running"
  /\ call.fn = fn
  /\ ~Ended(frame)
  /\ frame' = Pass(fn, call.c, call.target_dist, frame)
  /\ visited' = IF entersBody THEN Append(visited, Here) ELSE visited
  /\ UNCHANGED <<progVars, hpc, args, call, res>>

RangeStep == Step("simulate_range", RangeCond(frame))
TrajStep == Step("simulate_trajectory", TrajCond(frame))
SpeedStep == Step("speed_at_distance", SpeedCond(frame))

\* the call has returned or raised: the caller keeps the outcome and goes on
Collect ==
  /\ hpc = "running"
  /\ Ended(frame)
  /\ LET out == [frame |-> frame, visited |-> visited]
     IN CASE call.fn = "simulate_range" ->
               res' = [res EXCEPT !.range = out] /\ hpc' = "traj"
          [] call.fn = "simulate_trajectory" ->
               res' = [res EXCEPT !.traj = out] /\ hpc' = "speed"
          [] call.fn = "speed_at_distance" ->
               res' = [res EXCEPT !.speed = out] /\ hpc' = "done"
  /\ call' = NoCall
  /\ frame' = Frame(0, 0)
  /\ visited' = <<>>
  /\ UNCHANGED <<progVars, args>>

NextSim ==
  \/ CallMuzzle
  \/ CallRange \/ RangeStep
  \/ CallTraj \/ TrajStep
  \/ CallSpeed \/ SpeedStep
  \/ Collect

SpecSim == InitSim /\ [][NextSim]_vars

\* a running loop is not suspended: Python executes the next pass
SpecSimFair == SpecSim /\ WF_vars(NextSim)

\* ------------------------------------------------- properties (SpecSim)

\* the caller has made all its calls
Done == hpc = "done"
\* the documented domain with a positive launch speed
ValidCall ==
  /\ args.mass > 0 /\ args.diameter > 0 /\ args.v0 > 0
  /\ args.angle_deg >= 0 /\ args.angle_deg < 90

Last(q) == q[Len(q)]
Min(S) == CHOOSE m \in S : \A n \in S : m <= n

\* C1: for launch speed v0 = 0 (mass > 0, diameter > 0) simulate_range
\* returns 0, simulate_trajectory returns at most one point and
\* speed_at_distance returns 0, each without entering the loop body and
\* without raising.
C1_ZeroSpeedContract ==
  (Done /\ args.v0 = 0 /\ args.mass > 0 /\ args.diameter > 0) =>
    /\ res.range.frame.err = "none" /\ res.range.frame.ret = 0
    /\ res.range.visited = <<>>
    /\ res.traj.frame.err = "none" /\ Len(res.traj.frame.xs) <= 1
    /\ res.traj.visited = <<>>
    /\ res.speed.frame.err = "none" /\ res.speed.frame.ret = 0
    /\ res.speed.visited = <<>>

\* C2: invalid physical inputs are rejected with an error:
\* muzzle_velocity_ideal raises for every mass <= 0 at every pressure >= 0
\* and for negative pressure, and the three integrator entry points raise
\* for mass <= 0 or diameter <= 0.
C2_InvalidInputsRejected ==
  Done =>
    /\ (args.mass <= 0 /\ args.pressure_psi >= 0) => res.muzzle.err # "none"
    /\ args.pressure_psi < 0 => res.muzzle.err # "none"
    /\ (args.mass <= 0 \/ args.diameter <= 0) =>
         /\ res.range.frame.err # "none"
         /\ res.traj.frame.err # "none"
         /\ res.speed.frame.err # "none"

\* C3: for v0 > 0, with V the states of the flight in which the loop body is
\* entered (y >= 0), speed_at_distance returns 0 exactly when no state of V
\* has x >= target_dist; otherwise it returns the speed of the first such
\* state and has stepped exactly up to it.
C3_SpeedAtDistance ==
  (Done /\ ValidCall) =>
    LET V == res.range.visited
        hits == {n \in 1..Len(V) : V[n].x >= args.target_dist}
        S == res.speed
    IN /\ S.frame.err = "none" /\ S.frame.done
       /\ (S.frame.ret = 0) <=> (hits = {})
       /\ hits = {} => S.visited = V
       /\ hits # {} =>
            /\ S.frame.ret = Speed(V[Min(hits)])
            /\ S.visited = SubSeq(V, 1, Min(hits))

\* the target is reached in mid-flight: after the launch, before the impact
C3_Witness ==
  /\ Done /\ ValidCall
  /\ res.speed.frame.ret > 0
  /\ Len(res.speed.visited) > 1
  /\ Len(res.speed.visited) < Len(res.range.visited)

\* C5: for identical inputs (v0 > 0) the three entry points step through
\* the same states: simulate_trajectory enters the loop body in the states
\* simulate_range does and its k-th sample is the position of the k-th of
\* them, speed_at_distance visits a prefix of them, and simulate_range
\* returns the x one step after the last trajectory sample.
C5_SameStates ==
  (Done /\ ValidCall) =>
    LET R == res.range
        T == res.traj
        S == res.speed
        n == Len(T.frame.xs)
    IN /\ R.frame.err = "none" /\ T.frame.err = "none" /\ S.frame.err = "none"
       /\ T.visited = R.visited
       /\ n = Len(R.visited) /\ Len(T.frame.ys) = n
       /\ \A k \in 1..n :
            T.frame.xs[k] = R.visited[k].x /\ T.frame.ys[k] = R.visited[k].y
       /\ Len(S.visited) <= Len(R.visited)
       /\ S.visited = SubSeq(R.visited, 1, Len(S.visited))
       /\ n >= 1
       /\ R.frame.ret = TrajBody(Locals(args.mass, args.diameter), Last(T.visited)).x
       /\ R.frame.ret > T.frame.xs[n]

C5_Witness ==
  /\ Done /\ ValidCall
  /\ Len(res.traj.frame.xs) > 1
  /\ res.speed.visited # <<>>
  /\ Len(res.speed.visited) < Len(res.range.visited)
  /\ res.range.frame.ret > 0

\* C6: for v0 > 0 the trajectory is non-empty, starts at the origin, holds
\* the position at the top of each pass in order, has y >= 0 in all but
\* possibly the last sample, and has strictly increasing x.
C6_TrajectoryShape ==
  (Done /\ ValidCall) =>
    LET xs == res.traj.frame.xs
        ys == res.traj.frame.ys
        V == res.traj.visited
        n == Len(xs)
    IN /\ res.traj.frame.err = "none"
       /\ n >= 1 /\ Len(ys) = n /\ Len(V) = n
       /\ xs[1] = 0 /\ ys[1] = 0
       /\ \A k \in 1..n : xs[k] = V[k].x /\ ys[k] = V[k].y
       /\ \A k \in 1..(n - 1) : ys[k] >= 0
       /\ \A k \in 1..(n - 1) : xs[k] < xs[k + 1]

C6_Witness ==
  /\ Done /\ ValidCall
  /\ Len(res.traj.frame.xs) > 2
  /\ Last(res.traj.frame.xs) > 0

\* C10: for valid inputs with v0 > 0 every run of the loop terminates; the
\* loop body is entered only in states with y >= 0 and the call returns in
\* the first state with y < 0; for angle 0 the body is entered exactly once
\* and the trajectory is the single sample (0, 0).
C10_LoopExit ==
  (Done /\ ValidCall) =>
    /\ \A o \in {res.range, res.traj} :
         /\ o.frame.done /\ o.frame.err = "none"
         /\ o.frame.y < 0
         /\ Len(o.visited) >= 1
         /\ \A k \in 1..Len(o.visited) : o.visited[k].y >= 0
    /\ res.speed.frame.done
    /\ \A k \in 1..Len(res.speed.visited) : res.speed.visited[k].y >= 0
    /\ args.angle_deg = 0 =>
         /\ Len(res.range.visited) = 1
         /\ res.traj.frame.xs = <<0>> /\ res.traj.frame.ys = <<0>>

C10_Terminates == (ValidCall ~> Done) /\ []C10_LoopExit

C10_Witness ==
  /\ Done /\ ValidCall
  /\ Len(res.range.visited) > 1
  /\ res.range.frame.y < 0

\* ------------------------------------------------- properties (SpecCal)

\* line 91 as the calibration evaluates it
IdealV == muzzle_velocity_ideal(TshirtMass, CalPressure).val

\* line 95: simulate_range(mass, diameter, ideal_v_tshirt * m, 45)
RangeAt(m) ==
  simulate_range(TshirtMass, TshirtDiam, Scaled(IdealV, m), CalAngle).ret

\* the range at the two initial bounds of line 92
RangeAtLow == RangeAt(LowInit)
RangeAtHigh == RangeAt(HighInit)

\* the target lies between the ranges at the two initial bounds
Reachable == RangeAtLow <= target /\ target < RangeAtHigh
\* not even the multiplier 1.0 carries past the target
Unreachable == RangeAtHigh <= target

\* the calibration loop is running or has finished
Calibrating == pc \in {"loop", "sliders"}

\* C7: when the target is reachable the bisection keeps it bracketed at every
\* iteration, range(ideal_v * low) <= target < range(ideal_v * high); the
\* returned factor lies between the two final bounds, and the range at the
\* returned factor is within 1% of the target.
C7_Bracketed ==
  Reachable =>
    /\ Calibrating =>
         /\ RangeAt(low) <= target
         /\ target < RangeAt(high)
    /\ pc = "sliders" =>
         /\ low <= friction_factor_tshirt
         /\ friction_factor_tshirt <= high
         /\ Abs(RangeAt(friction_factor_tshirt) - target) <= target \div 100

\* a reachable target has been calibrated, with both bounds moved on the way
C7_Witness ==
  /\ pc = "sliders" /\ Reachable
  /\ lowMoves > 0 /\ highMoves > 0
  /\ target > 0

\* C8: when the range at the multiplier 1.0 does not exceed the target, the
\* calibration raises no error, never changes the upper bound from 1.0,
\* raises the lower bound in every iteration (all 100 of them), and returns
\* a factor within one unit of resolution of the upper bound; the script
\* goes on to the sliders as it does for a reachable target.
C8_Saturates ==
  Unreachable =>
    /\ pc # "raised"
    /\ Calibrating =>
         /\ high = HighInit /\ highMoves = 0
         /\ lowMoves = it
    /\ pc = "sliders" =>
         /\ lowMoves = NumIter
         /\ HighInit - friction_factor_tshirt <= 1
         /\ friction_factor_tshirt <= HighInit

C8_Witness ==
  /\ pc = "sliders" /\ Unreachable
  /\ lowMoves = NumIter /\ highMoves = 0
  /\ low > LowInit

\* one iteration of the calibration loop has just run
Iterated == pc = "loop" /\ pc' = "loop" /\ it' = it + 1

\* C9 as stated: the interval width halves in each iteration.
C9_WidthHalves ==
  [][Iterated => 2 * (high' - low') = high - low]_vars

\* C9 (amended): the loop runs exactly 100 iterations whatever the
\* comparisons return; each iteration replaces exactly one bound by the
\* midpoint and leaves the other unchanged; 0.01 <= low <= high <= 1.0
\* throughout; the width never grows and is half the previous width up to
\* the rounding of the midpoint to a representable value; the returned value
\* is the midpoint of the final bounds and lies in (0, 1].
C9_Bisection ==
  /\ [](Calibrating =>
          /\ LowInit <= low /\ low <= high /\ high <= HighInit
          /\ it <= NumIter
          /\ lowMoves + highMoves = it)
  /\ [](pc = "sliders" =>
          /\ it = NumIter
          /\ friction_factor_tshirt = Mid(low, high)
          /\ friction_factor_tshirt > 0
          /\ friction_factor_tshirt <= FactorScale)
  /\ [][Iterated =>
          /\ \/ low' = Mid(low, high) /\ lowMoves' = lowMoves + 1
                /\ high' = high /\ highMoves' = highMoves
             \/ high' = Mid(low, high) /\ highMoves' = highMoves + 1
                /\ low' = low /\ lowMoves' = lowMoves
          /\ high' - low' <= high - low
          /\ Abs(2 * (high' - low') - (high - low)) <= 1]_vars
  /\ [][pc = "loop" /\ pc' = "sliders" => it = NumIter]_vars

\* the loop has finished with bounds that can no longer be halved
C9_Witness ==
  /\ pc = "sliders" /\ it = NumIter
  /\ lowMoves > 0 /\ highMoves > 0
  /\ high - low <= 1

\* --------------------------------------------------- properties (Spec)

\* C4: over any sequence of slider changes the calibration loop executes
\* exactly once in total and friction_factor_tshirt is not assigned again.
C4_CalibratedOnce == loopRuns <= 1
====
